---------------------------- MODULE Spec2Model ----------------------------
(***************************************************************************)
(* Identifier normalisation of pilota-build (src/symbol.rs): the keyword   *)
(* table, the rendering (Display) of Symbol and Ident, the role-based      *)
(* naming trait IdentName for &str and the custom to_snake_case.           *)
(*                                                                         *)
(* A text is a sequence of characters, a character is a one-letter string. *)
(* The characters modelled are ASCII: for them char::to_lowercase and      *)
(* char::to_uppercase yield exactly one character.                         *)
(***************************************************************************)
EXTENDS Integers, Sequences, FiniteSets, TLC

(* Bounds of the enumerated inputs. *)
MaxLen == 4

(* The characters the enumerated inputs are built from: the separator, the *)
(* apostrophe to_snake_case singles out, a lower-case and an upper-case    *)
(* letter.                                                                 *)
Alphabet == {"_", "'", "s", "I"}

UpperLetters == <<"A", "B", "C", "D", "E", "F", "G", "H", "I", "J", "K", "L", "M", "N", "O", "P", "Q", "R", "S", "T", "U", "V", "W", "X", "Y", "Z">>

LowerLetters == <<"a", "b", "c", "d", "e", "f", "g", "h", "i", "j", "k", "l", "m", "n", "o", "p", "q", "r", "s", "t", "u", "v", "w", "x", "y", "z">>

Digits == {"0", "1", "2", "3", "4", "5", "6", "7", "8", "9"}

LetterIndex(letters, c) == CHOOSE i \in 1..Len(letters) : letters[i] = c

(* char::is_uppercase *)
is_uppercase(c) == \E i \in 1..Len(UpperLetters) : UpperLetters[i] = c

(* char::is_lowercase *)
is_lowercase(c) == \E i \in 1..Len(LowerLetters) : LowerLetters[i] = c

(* char::is_alphanumeric *)
is_alphanumeric(c) == is_uppercase(c) \/ is_lowercase(c) \/ c \in Digits

(* char::to_lowercase: the characters the lower-case form consists of *)
to_lowercase(c) ==
    IF is_uppercase(c) THEN <<LowerLetters[LetterIndex(UpperLetters, c)]>> ELSE <<c>>

(* char::to_uppercase *)
char_to_uppercase(c) ==
    IF is_lowercase(c) THEN <<UpperLetters[LetterIndex(LowerLetters, c)]>> ELSE <<c>>

RECURSIVE Flatten(_)
(* the concatenation of a sequence of texts *)
Flatten(ws) == IF ws = <<>> THEN <<>> ELSE Head(ws) \o Flatten(Tail(ws))

(* str::to_lowercase, character by character *)
str_to_lowercase(s) == Flatten([i \in 1..Len(s) |-> to_lowercase(s[i])])

(* str::to_uppercase, character by character *)
to_uppercase(s) == Flatten([i \in 1..Len(s) |-> char_to_uppercase(s[i])])

(* The keyword table. *)
KEYWORDS_SET == {
    <<"a", "s">>,
    <<"u", "s", "e">>,
    <<"b", "r", "e", "a", "k">>,
    <<"c", "o", "n", "s", "t">>,
    <<"c", "o", "n", "t", "i", "n", "u", "e">>,
    <<"c", "r", "a", "t", "e">>,
    <<"e", "l", "s", "e">>,
    <<"i", "f">>,
    <<"e", "n", "u", "m">>,
    <<"e", "x", "t", "e", "r", "n">>,
    <<"f", "a", "l", "s", "e">>,
    <<"f", "n">>,
    <<"f", "o", "r">>,
    <<"i", "m", "p", "l">>,
    <<"i", "n">>,
    <<"l", "e", "t">>,
    <<"l", "o", "o", "p">>,
    <<"m", "a", "t", "c", "h">>,
    <<"m", "o", "d">>,
    <<"m", "o", "v", "e">>,
    <<"m", "u", "t">>,
    <<"p", "u", "b">>,
    <<"r", "e", "f">>,
    <<"r", "e", "t", "u", "r", "n">>,
    <<"S", "e", "l", "f">>,
    <<"s", "e", "l", "f">>,
    <<"s", "t", "a", "t", "i", "c">>,
    <<"s", "t", "r", "u", "c", "t">>,
    <<"s", "u", "p", "e", "r">>,
    <<"t", "r", "a", "i", "t">>,
    <<"t", "r", "u", "e">>,
    <<"t", "y", "p", "e">>,
    <<"u", "n", "s", "a", "f", "e">>,
    <<"w", "h", "e", "r", "e">>,
    <<"w", "h", "i", "l", "e">>,
    <<"a", "b", "s", "t", "r", "a", "c", "t">>,
    <<"a", "l", "i", "g", "n", "o", "f">>,
    <<"b", "e", "c", "o", "m", "e">>,
    <<"b", "o", "x">>,
    <<"d", "o">>,
    <<"f", "i", "n", "a", "l">>,
    <<"m", "a", "c", "r", "o">>,
    <<"o", "f", "f", "s", "e", "t", "o", "f">>,
    <<"o", "v", "e", "r", "r", "i", "d", "e">>,
    <<"p", "r", "i", "v">>,
    <<"p", "r", "o", "c">>,
    <<"p", "u", "r", "e">>,
    <<"s", "i", "z", "e", "o", "f">>,
    <<"t", "y", "p", "e", "o", "f">>,
    <<"u", "n", "s", "i", "z", "e", "d">>,
    <<"v", "i", "r", "t", "u", "a", "l">>,
    <<"y", "i", "e", "l", "d">>,
    <<"d", "y", "n">>,
    <<"a", "s", "y", "n", "c">>,
    <<"a", "w", "a", "i", "t">>,
    <<"t", "r", "y">>
}

(* a faulty lookup: membership up to the case of the letters *)
ContainsIgnoreCase(set, key) == \E k \in set : str_to_lowercase(k) = str_to_lowercase(key)

(* phf::Set::contains: exact, case-sensitive membership *)
Contains(set, key) == key \in set

(* Symbol(pub FastStr) *)
Symbol(t) == [text |-> t]

(* Ident { sym } *)
Ident(sym) == [sym |-> sym]

(* faulty renderings: without the "Self" case, with a shortened escape    *)
(* prefix, without the keyword escape                                      *)
SymbolFmtNoSelfCase(self) ==
    IF Contains(KEYWORDS_SET, self.text)
    THEN <<"r", "#">> \o self.text
    ELSE self.text

SymbolFmtBarePrefix(self) ==
    IF self.text = <<"S", "e", "l", "f">>
    THEN <<"S", "e", "l", "f", "_">>
    ELSE IF Contains(KEYWORDS_SET, self.text)
         THEN <<"r">> \o self.text
         ELSE self.text

SymbolFmtNoEscape(self) ==
    IF self.text = <<"S", "e", "l", "f">>
    THEN <<"S", "e", "l", "f", "_">>
    ELSE self.text

(* impl Display for Symbol *)
SymbolFmt(self) ==
    IF self.text = <<"S", "e", "l", "f">>
    THEN <<"S", "e", "l", "f", "_">>
    ELSE IF Contains(KEYWORDS_SET, self.text)
         THEN <<"r", "#">> \o self.text
         ELSE self.text

(* impl Display for Ident *)
IdentFmt(self) == SymbolFmt(self.sym)

RECURSIVE Join(_, _)
(* [String]::join: the words with sep between neighbours *)
Join(words, sep) ==
    IF words = <<>> THEN <<>>
    ELSE IF Len(words) = 1 THEN words[1]
    ELSE words[1] \o sep \o Join(Tail(words), sep)

RECURSIVE Split(_, _)
(* str::split(char): the pieces between occurrences of sep, empty ones kept *)
Split(s, sep) ==
    IF \A i \in 1..Len(s) : s[i] # sep THEN <<s>>
    ELSE LET k == CHOOSE i \in 1..Len(s) :
                      s[i] = sep /\ \A j \in 1..(i - 1) : s[j] # sep
         IN  <<SubSeq(s, 1, k - 1)>> \o Split(SubSeq(s, k + 1, Len(s)), sep)

(* the number of leading characters of s that are underscores *)
LeadingUnderscores(s) ==
    IF \A i \in 1..Len(s) : s[i] = "_" THEN Len(s)
    ELSE (CHOOSE i \in 1..Len(s) : s[i] # "_" /\ \A j \in 1..(i - 1) : s[j] = "_") - 1

(* faulty trimmings: no word pushed, one word pushed for the whole run     *)
TrimLeadingNoPush(str) ==
    LET n == LeadingUnderscores(str)
    IN  [words |-> <<>>, str |-> SubSeq(str, n + 1, Len(str))]

TrimLeadingCollapsed(str) ==
    LET n == LeadingUnderscores(str)
    IN  [words |-> IF n > 0 THEN <<<<>>>> ELSE <<>>, str |-> SubSeq(str, n + 1, Len(str))]

(* to_snake_case, the trim_start_matches call: every leading underscore is *)
(* removed and pushes one empty word                                       *)
TrimLeading(str) ==
    LET n == LeadingUnderscores(str)
    IN  [words |-> [i \in 1..n |-> <<>>], str |-> SubSeq(str, n + 1, Len(str))]

(* faulty boundary conditions: last_upper ignored, last_upper inverted,    *)
(* the apostrophe test left out                                            *)
StartsNewWordAnyUpper(buf, ch, last_upper) ==
    buf # <<>> /\ buf # <<"'">> /\ is_uppercase(ch)

StartsNewWordAfterUpper(buf, ch, last_upper) ==
    buf # <<>> /\ buf # <<"'">> /\ is_uppercase(ch) /\ last_upper

StartsNewWordNoApostrophe(buf, ch, last_upper) ==
    buf # <<>> /\ is_uppercase(ch) /\ ~last_upper

(* to_snake_case, the condition under which the buffer is pushed as a word *)
(* before ch is appended                                                   *)
StartsNewWord(buf, ch, last_upper) ==
    buf # <<>> /\ buf # <<"'">> /\ is_uppercase(ch) /\ ~last_upper

RECURSIVE ScanChars(_, _, _, _, _)
(* to_snake_case, the loop over the characters of one segment, from the    *)
(* i-th on, and the push of the buffer after it                            *)
ScanChars(s, i, words, buf, last_upper) ==
    IF i > Len(s) THEN Append(words, buf)
    ELSE LET flush == StartsNewWord(buf, s[i], last_upper)
         IN  ScanChars(s, i + 1,
                       IF flush THEN Append(words, buf) ELSE words,
                       (IF flush THEN <<>> ELSE buf) \o to_lowercase(s[i]),
                       is_uppercase(s[i]))

(* a faulty loop body: an empty segment pushes an empty word *)
SegmentWordsKeepEmpty(words, s) == ScanChars(s, 1, words, <<>>, FALSE)

(* to_snake_case, the body of the loop over the segments: the words with   *)
(* those of segment s added, an empty segment adding none                  *)
SegmentWords(words, s) ==
    IF s = <<>> THEN words ELSE ScanChars(s, 1, words, <<>>, FALSE)

RECURSIVE AllSegments(_, _)
(* to_snake_case, the loop over the segments *)
AllSegments(words, segs) ==
    IF segs = <<>> THEN words
    ELSE AllSegments(SegmentWords(words, Head(segs)), Tail(segs))

(* fn to_snake_case (taken from rustc) *)
to_snake_case(str) ==
    LET t == TrimLeading(str)
    IN  Join(AllSegments(t.words, Split(t.str, "_")), <<"_">>)

(***************************************************************************)
(* The heck crate's word splitter (heck::ToSnakeCase, ToShoutySnakeCase),  *)
(* the standard path of snake_ident and shouty_snake_case.  The input is   *)
(* split at every non-alphanumeric character; inside a piece a word ends   *)
(* after a lower-case letter followed by an upper-case one, and before the *)
(* last upper-case letter of a run that a lower-case letter follows.       *)
(***************************************************************************)
RECURSIVE SplitNonAlphanumeric(_)
SplitNonAlphanumeric(s) ==
    IF \A i \in 1..Len(s) : is_alphanumeric(s[i]) THEN <<s>>
    ELSE LET k == CHOOSE i \in 1..Len(s) :
                      ~is_alphanumeric(s[i]) /\ \A j \in 1..(i - 1) : is_alphanumeric(s[j])
         IN  <<SubSeq(s, 1, k - 1)>> \o SplitNonAlphanumeric(SubSeq(s, k + 1, Len(s)))

RECURSIVE HeckScan(_, _, _, _, _)
(* the words of one piece, scanned from its i-th character; init is where  *)
(* the current word starts and mode the case of its last cased character   *)
HeckScan(word, i, init, mode, acc) ==
    IF i > Len(word) THEN acc
    ELSE IF i = Len(word) THEN Append(acc, SubSeq(word, init, Len(word)))
    ELSE LET c == word[i]
             next == word[i + 1]
             next_mode == IF is_lowercase(c) THEN "Lowercase"
                          ELSE IF is_uppercase(c) THEN "Uppercase"
                          ELSE mode
         IN  IF next_mode = "Lowercase" /\ is_uppercase(next)
             THEN HeckScan(word, i + 1, i + 1, "Boundary",
                           Append(acc, SubSeq(word, init, i)))
             ELSE IF mode = "Uppercase" /\ is_uppercase(c) /\ is_lowercase(next)
             THEN HeckScan(word, i + 1, i, "Boundary",
                           Append(acc, SubSeq(word, init, i - 1)))
             ELSE HeckScan(word, i + 1, init, next_mode, acc)

RECURSIVE HeckWords(_)
HeckWords(pieces) ==
    IF pieces = <<>> THEN <<>>
    ELSE HeckScan(Head(pieces), 1, 1, "Boundary", <<>>) \o HeckWords(Tail(pieces))

(* heck::ToSnakeCase::to_snake_case *)
heck_to_snake_case(s) ==
    LET ws == HeckWords(SplitNonAlphanumeric(s))
    IN  Join([i \in 1..Len(ws) |-> str_to_lowercase(ws[i])], <<"_">>)

(* heck::ToShoutySnakeCase::to_shouty_snake_case *)
heck_to_shouty_snake_case(s) ==
    LET ws == HeckWords(SplitNonAlphanumeric(s))
    IN  Join([i \in 1..Len(ws) |-> to_uppercase(ws[i])], <<"_">>)

(* impl IdentName for &str: snake_ident *)
snake_ident(self, nonstandard) ==
    IF nonstandard THEN to_snake_case(self) ELSE heck_to_snake_case(self)

(* impl IdentName for &str: shouty_snake_case *)
shouty_snake_case(self, nonstandard) ==
    IF nonstandard THEN to_uppercase(to_snake_case(self))
    ELSE heck_to_shouty_snake_case(self)

(* IdentName: the default role methods of the snake family *)
mod_ident(self, nonstandard) == snake_ident(self, nonstandard)

fn_ident(self, nonstandard) == snake_ident(self, nonstandard)

field_ident(self, nonstandard) == snake_ident(self, nonstandard)

const_ident(self, nonstandard) == shouty_snake_case(self, nonstandard)

(***************************************************************************)
(* The state machine: a caller holds a raw name, builds a Symbol and an    *)
(* Ident from it, renders them, and asks the naming trait for the name in  *)
(* a role.  out is the text the last operation returned, op its name and   *)
(* nonstandard the flag it was called with.                                *)
(***************************************************************************)
VARIABLES name, sym, ident, op, nonstandard, out

vars == <<name, sym, ident, op, nonstandard, out>>

(* Option: <<>> is None, <<v>> is Some(v) *)
None == <<>>

Some(v) == <<v>>

(* every text over Alphabet of at most MaxLen characters *)
Texts == UNION {[1..n -> Alphabet] : n \in 0..MaxLen}

(* texts of interest beyond the enumerated ones and the keywords *)
Examples == {
    <<"I", "D", "s">>,
    <<"U", "s", "e", "r", "I", "D">>,
    <<"H", "T", "T", "P", "S", "e", "r", "v", "e", "r">>,
    <<"_", "f", "o", "o">>,
    <<"f", "o", "o", "_">>,
    <<"f", "o", "o", "_", "_">>,
    <<"F", "n">>,
    <<"I", "F">>,
    <<"s", "e", "l", "f", "_">>,
    <<"S", "e", "l", "f", "_">>,
    <<"S", "E", "L", "F">>,
    <<"r", "#", "s", "e", "l", "f">>,
    <<"r", "#", "S", "e", "l", "f">>,
    <<"f", "o", "o", "B", "a", "r">>
}

Names == Texts \cup KEYWORDS_SET \cup Examples

Init ==
    /\ name \in Names
    /\ sym = None
    /\ ident = None
    /\ op = "none"
    /\ nonstandard = FALSE
    /\ out = <<>>

(* impl From<T> for Symbol *)
SymbolFrom ==
    /\ sym' = Some(Symbol(name))
    /\ UNCHANGED <<name, ident, op, nonstandard, out>>

(* Ident::new *)
IdentNew ==
    /\ sym # None
    /\ ident' = Some(Ident(sym[1]))
    /\ UNCHANGED <<name, sym, op, nonstandard, out>>

(* impl From<T> for Ident *)
IdentFrom ==
    /\ ident' = Some(Ident(Symbol(name)))
    /\ UNCHANGED <<name, sym, op, nonstandard, out>>

(* Symbol rendered with Display *)
SymbolDisplay ==
    /\ sym # None
    /\ out' = SymbolFmt(sym[1])
    /\ op' = "Symbol::fmt"
    /\ UNCHANGED <<name, sym, ident, nonstandard>>

(* Ident rendered with Display *)
IdentDisplay ==
    /\ ident # None
    /\ out' = IdentFmt(ident[1])
    /\ op' = "Ident::fmt"
    /\ UNCHANGED <<name, sym, ident, nonstandard>>

SnakeIdent(ns) ==
    /\ out' = snake_ident(name, ns)
    /\ op' = "snake_ident"
    /\ nonstandard' = ns
    /\ UNCHANGED <<name, sym, ident>>

ShoutySnakeCase(ns) ==
    /\ out' = shouty_snake_case(name, ns)
    /\ op' = "shouty_snake_case"
    /\ nonstandard' = ns
    /\ UNCHANGED <<name, sym, ident>>

ModIdent(ns) ==
    /\ out' = mod_ident(name, ns)
    /\ op' = "mod_ident"
    /\ nonstandard' = ns
    /\ UNCHANGED <<name, sym, ident>>

FnIdent(ns) ==
    /\ out' = fn_ident(name, ns)
    /\ op' = "fn_ident"
    /\ nonstandard' = ns
    /\ UNCHANGED <<name, sym, ident>>

FieldIdent(ns) ==
    /\ out' = field_ident(name, ns)
    /\ op' = "field_ident"
    /\ nonstandard' = ns
    /\ UNCHANGED <<name, sym, ident>>

ConstIdent(ns) ==
    /\ out' = const_ident(name, ns)
    /\ op' = "const_ident"
    /\ nonstandard' = ns
    /\ UNCHANGED <<name, sym, ident>>

Next ==
    \/ SymbolFrom
    \/ IdentNew
    \/ IdentFrom
    \/ SymbolDisplay
    \/ IdentDisplay
    \/ \E ns \in BOOLEAN : SnakeIdent(ns)
    \/ \E ns \in BOOLEAN : ShoutySnakeCase(ns)
    \/ \E ns \in BOOLEAN : ModIdent(ns)
    \/ \E ns \in BOOLEAN : FnIdent(ns)
    \/ \E ns \in BOOLEAN : FieldIdent(ns)
    \/ \E ns \in BOOLEAN : ConstIdent(ns)

Spec == Init /\ [][Next]_vars

(***************************************************************************)
(* Properties.                                                             *)
(***************************************************************************)
Self == <<"S", "e", "l", "f">>

Rendering == op \in {"Symbol::fmt", "Ident::fmt"}

(* the text of the value the last rendering rendered *)
Rendered == IF op = "Symbol::fmt" THEN sym[1].text ELSE ident[1].sym.text

RECURSIVE LeadingRun(_)
(* how many underscores s starts with *)
LeadingRun(s) ==
    IF s = <<>> \/ Head(s) # "_" THEN 0 ELSE 1 + LeadingRun(Tail(s))

RECURSIVE TrailingRun(_)
(* how many underscores s ends with *)
TrailingRun(s) ==
    IF s = <<>> \/ s[Len(s)] # "_" THEN 0
    ELSE 1 + TrailingRun(SubSeq(s, 1, Len(s) - 1))

Underscores(n) == [i \in 1..n |-> "_"]

CustomSnake == op = "snake_ident" /\ nonstandard

(* C1: rendering a Symbol or an Ident built from a keyword other than      *)
(* "Self" yields "r#" followed by the keyword.                             *)
C1_KeywordEscaped ==
    (Rendering /\ Rendered \in KEYWORDS_SET \ {Self})
        => out = <<"r", "#">> \o Rendered

C1_Witness ==
    /\ op = "Ident::fmt"
    /\ Rendered = <<"a", "s", "y", "n", "c">>
    /\ out = <<"r", "#", "a", "s", "y", "n", "c">>

(* C2: rendering a Symbol or an Ident whose text is "Self" yields "Self_", *)
(* not "r#Self", although "Self" is in the keyword table.                  *)
C2_SelfSuffixed ==
    (Rendering /\ Rendered = Self)
        => /\ Self \in KEYWORDS_SET
           /\ out = <<"S", "e", "l", "f", "_">>
           /\ out # <<"r", "#", "S", "e", "l", "f">>

C2_Witness ==
    /\ op = "Symbol::fmt"
    /\ Rendered = Self
    /\ out = <<"S", "e", "l", "f", "_">>

(* C3: rendering a Symbol or an Ident whose text is neither "Self" nor a   *)
(* keyword (compared exactly, case-sensitively) yields the text unchanged. *)
C3_NonKeywordUnchanged ==
    (Rendering /\ Rendered # Self /\ Rendered \notin KEYWORDS_SET)
        => out = Rendered

C3_Witness ==
    /\ op = "Symbol::fmt"
    /\ Rendered = <<"F", "n">>
    /\ out = <<"F", "n">>

(* C4: the text a rendering yields is never a member of the keyword table, *)
(* whichever of Symbol and Ident is rendered.                              *)
C4_NeverKeyword == Rendering => out \notin KEYWORDS_SET

C4_Witness ==
    /\ op = "Ident::fmt"
    /\ Rendered = <<"s", "e", "l", "f">>
    /\ out = <<"r", "#", "s", "e", "l", "f">>

(* C5: on "IDs" snake_ident returns "ids" with nonstandard and "i_ds"      *)
(* without: the two modes disagree.                                        *)
C5_IDsModesDisagree ==
    (op = "snake_ident" /\ name = <<"I", "D", "s">>)
        => out = IF nonstandard THEN <<"i", "d", "s">> ELSE <<"i", "_", "d", "s">>

C5_Witness ==
    /\ CustomSnake
    /\ name = <<"I", "D", "s">>
    /\ out = <<"i", "d", "s">>

(* C6 as stated: field_ident of "UserID" with nonstandard returns          *)
(* "userid", not "user_id".                                                *)
C6_Original ==
    (op = "field_ident" /\ nonstandard /\ name = <<"U", "s", "e", "r", "I", "D">>)
        => /\ out = <<"u", "s", "e", "r", "i", "d">>
           /\ out # <<"u", "s", "e", "r", "_", "i", "d">>

(* C6 amended: field_ident of "UserID" with nonstandard returns "user_id": *)
(* the word boundary falls at the lower-to-upper transition r|I and the    *)
(* acronym run "ID" stays together.                                        *)
C6_UserIDSplitsOnce ==
    (op = "field_ident" /\ nonstandard /\ name = <<"U", "s", "e", "r", "I", "D">>)
        => out = <<"u", "s", "e", "r", "_", "i", "d">>

C6_Witness ==
    /\ op = "field_ident"
    /\ nonstandard
    /\ name = <<"U", "s", "e", "r", "I", "D">>
    /\ out = <<"u", "s", "e", "r", "_", "i", "d">>

(* C7: for n leading underscores followed by a non-empty remainder that    *)
(* does not start with an underscore, the output of snake_ident with       *)
(* nonstandard starts with exactly n underscores and a further character;  *)
(* "_foo" maps to "_foo".                                                  *)
C7_LeadingUnderscoresKept ==
    (CustomSnake /\ LeadingRun(name) < Len(name))
        => /\ LeadingRun(out) = LeadingRun(name)
           /\ Len(out) > LeadingRun(name)
           /\ (name = <<"_", "f", "o", "o">> => out = <<"_", "f", "o", "o">>)

C7_Witness ==
    /\ CustomSnake
    /\ name = <<"_", "_", "s", "I">>
    /\ out = <<"_", "_", "s", "_", "i">>

(* C8 as stated: an input ending with underscores after a non-underscore   *)
(* character keeps the number of trailing underscores under snake_ident    *)
(* with nonstandard.                                                       *)
C8_Original ==
    (CustomSnake /\ TrailingRun(name) >= 1 /\ TrailingRun(name) < Len(name))
        => TrailingRun(out) = TrailingRun(name)

(* C8 amended: an input ending with underscores after a non-underscore     *)
(* character loses all its trailing underscores under snake_ident with     *)
(* nonstandard: the output ends with a non-underscore character.           *)
C8_TrailingUnderscoresDropped ==
    (CustomSnake /\ TrailingRun(name) >= 1 /\ TrailingRun(name) < Len(name))
        => out # <<>> /\ TrailingRun(out) = 0

C8_Witness ==
    /\ CustomSnake
    /\ name = <<"f", "o", "o", "_", "_">>
    /\ out = <<"f", "o", "o">>

AllUnderscores(s) == \A i \in 1..Len(s) : s[i] = "_"

(* C9 as stated: for the empty string and every string of underscores      *)
(* only, snake_ident and shouty_snake_case with nonstandard return the     *)
(* empty string.                                                           *)
C9_Original ==
    (op \in {"snake_ident", "shouty_snake_case"} /\ nonstandard /\ AllUnderscores(name))
        => out = <<>>

(* C9 amended: for the empty string snake_ident and shouty_snake_case with *)
(* nonstandard return the empty string, and for a string of n >= 1         *)
(* underscores they return n - 1 underscores.                              *)
C9_AllUnderscoresLoseOne ==
    (op \in {"snake_ident", "shouty_snake_case"} /\ nonstandard /\ AllUnderscores(name))
        => out = Underscores(IF Len(name) = 0 THEN 0 ELSE Len(name) - 1)

C9_Witness ==
    /\ op = "shouty_snake_case"
    /\ nonstandard
    /\ name = <<"_", "_", "_">>
    /\ out = <<"_", "_">>

(* whether the i-th character of s is the first of its underscore-         *)
(* delimited segment                                                       *)
SegmentStart(s, i) == i = 1 \/ s[i - 1] = "_"

(* whether a new word starts before the i-th character of s, inside its    *)
(* segment: the character is upper-case, the one before it belongs to the  *)
(* segment and is not upper-case, and what was accumulated is not a lone   *)
(* apostrophe (only a segment's first character can be that)               *)
WordBreak(s, i) ==
    /\ is_uppercase(s[i])
    /\ ~SegmentStart(s, i)
    /\ ~is_uppercase(s[i - 1])
    /\ ~(s[i - 1] = "'" /\ SegmentStart(s, i - 1))

(* what the i-th character of s contributes to the output *)
Emitted(s, i) ==
    IF s[i] = "_"
    THEN IF i <= LeadingRun(s) THEN <<"_">> ELSE <<>>
    ELSE (IF (SegmentStart(s, i) /\ i > LeadingRun(s) + 1) \/ WordBreak(s, i)
          THEN <<"_">> ELSE <<>>) \o to_lowercase(s[i])

(* C10: in each segment a new word starts before a character exactly when  *)
(* it is upper-case, its predecessor in the segment is not, and the buffer *)
(* is neither empty nor a lone apostrophe; every character is emitted in   *)
(* lower case; the words are joined by single underscores; "HTTPServer"    *)
(* is one word.                                                            *)
C10_WordBreaks ==
    (CustomSnake /\ ~AllUnderscores(name))
        => /\ out = Flatten([i \in 1..Len(name) |-> Emitted(name, i)])
           /\ (name = <<"H", "T", "T", "P", "S", "e", "r", "v", "e", "r">>
                 => out = <<"h", "t", "t", "p", "s", "e", "r", "v", "e", "r">>)

C10_Witness ==
    /\ CustomSnake
    /\ name = <<"s", "I", "I", "s">>
    /\ out = <<"s", "_", "i", "i", "s">>

=============================================================================
